---- MODULE Spec2Model ----
(***************************************************************************)
(* The front end of nolang: the two-level lexer of nolang/lexer.py and the *)
(* grammar of nolang/parser.py.                                            *)
(*                                                                         *)
(* A source text is a sequence of bytes (the code runs on Python 2 byte    *)
(* strings): 10 is the newline, 34 the double quote, 92 the backslash.     *)
(* Offsets are 0-based as in the code: At(str, i) is Python's str[i] and   *)
(* Slice(str, a, b) is Python's str[a:b].                                  *)
(***************************************************************************)
EXTENDS Integers, Sequences, FiniteSets, TLC

VARIABLES
    s,            \* SRLexerStream.s: the source text
    idx,          \* SRLexerStream.idx: offset of the next byte to scan
    lineno,       \* SRLexerStream._lineno
    last_token,   \* QuillLexerStream._last_token: <<>> is None, <<t>> a token
    stream,       \* "open", "stopped" (StopIteration) or "raised"
    exc,          \* the exception next() raised, NoExc while there is none
    emitted,      \* history: the tokens next() has returned, in order
    skipped,      \* history: the SourceRanges of whitespace matched and dropped
    pstack,       \* the parser's symstack/statestack, bottom first
    lookahead,    \* the parser's lookahead: <<>> is None, <<t>> a token
    result        \* outcome of the parse: kind "running", "ast" or "raised"

vars == <<s, idx, lineno, last_token, stream, exc, emitted, skipped,
          pstack, lookahead, result>>

lexvars == <<s, idx, lineno, last_token, stream, exc, emitted, skipped>>

----------------------------------------------------------------------------
(* Bytes and Python string primitives *)

LF == 10
CR == 13
QUOTE == 34
BSL == 92

Byte == 0..255
Digits == 48..57                                   \* \d
Letters == (65..90) \cup (97..122) \cup {95}       \* [a-zA-Z_]
HexDigits == (48..57) \cup (97..102) \cup (65..70) \* [0-9a-fA-F]
Space == {32, 9, LF, CR, 12, 11}                   \* \s

At(str, i) == str[i + 1]

Slice(str, a, b) == IF a < b THEN SubSeq(str, a + 1, b) ELSE <<>>

\* str.count(c, a, b)
RECURSIVE Count(_, _, _, _)
Count(str, c, a, b) ==
    IF a >= b \/ a >= Len(str) THEN 0
    ELSE (IF At(str, a) = c THEN 1 ELSE 0) + Count(str, c, a + 1, b)

\* str.rfind(c, 0, b): the last index below b holding c, -1 when there is none
RECURSIVE RFind(_, _, _)
RFind(str, c, b) ==
    IF b <= 0 THEN -1
    ELSE IF b <= Len(str) /\ At(str, b - 1) = c THEN b - 1
    ELSE RFind(str, c, b - 1)

\* str.splitlines() of a Python 2 byte string: breaks at \n, \r and \r\n,
\* the break is not part of the line, no empty last line
RECURSIVE SplitLinesFrom(_, _, _)
SplitLinesFrom(str, i, cur) ==
    IF i >= Len(str) THEN (IF cur = <<>> THEN <<>> ELSE <<cur>>)
    ELSE IF At(str, i) = LF THEN <<cur>> \o SplitLinesFrom(str, i + 1, <<>>)
    ELSE IF At(str, i) = CR
         THEN <<cur>> \o SplitLinesFrom(
                  str,
                  IF i + 1 < Len(str) /\ At(str, i + 1) = LF THEN i + 2 ELSE i + 1,
                  <<>>)
    ELSE SplitLinesFrom(str, i + 1, Append(cur, At(str, i)))

SplitLines(str) == SplitLinesFrom(str, 0, <<>>)

\* the end of the longest run of bytes of `class` that starts at i
RECURSIVE ScanWhile(_, _, _)
ScanWhile(str, i, class) ==
    IF i < Len(str) /\ At(str, i) \in class THEN ScanWhile(str, i + 1, class) ELSE i

\* whether the literal `lit` stands at offset i
StartsWith(str, i, lit) ==
    /\ i + Len(lit) <= Len(str)
    /\ \A k \in 1..Len(lit) : str[i + k] = lit[k]

\* int(digits, 16)
RECURSIVE HexInt(_)
HexInt(digits) ==
    IF digits = <<>> THEN 0
    ELSE LET d == digits[Len(digits)]
             v == IF d \in 48..57 THEN d - 48
                  ELSE IF d \in 97..102 THEN d - 87
                  ELSE d - 55
         IN 16 * HexInt(SubSeq(digits, 1, Len(digits) - 1)) + v

----------------------------------------------------------------------------
(* Tokens, source ranges, exceptions *)

Filename == "<input>"

SourceRange(start, end, ln, col) ==
    [start |-> start, end |-> end, lineno |-> ln, colno |-> col]

NoRange == SourceRange(-1, -1, 0, 0)

Token(name, value, source_pos) ==
    [name |-> name, value |-> value, source_pos |-> source_pos]

NoExc == [type |-> "none", msg |-> "", line |-> <<>>, filename |-> "",
          lineno |-> 0, start_colno |-> 0, end_colno |-> 0]

\* an exception that is no diagnostic: AttributeError, AssertionError, ...
Crash(type, msg) ==
    [type |-> type, msg |-> msg, line |-> <<>>, filename |-> "",
     lineno |-> 0, start_colno |-> 0, end_colno |-> 0]

\* nolang.lexer.ParseError(msg, line, filename, lineno, start_colno, end_colno)
LexerParseError(msg, line, filename, ln, start_colno, end_colno) ==
    [type |-> "lexer.ParseError", msg |-> msg, line |-> line, filename |-> filename,
     lineno |-> ln, start_colno |-> start_colno, end_colno |-> end_colno]

----------------------------------------------------------------------------
(* The rule tables *)

\* RULES, in declared order: the first rule that matches wins
RULES == <<"INTEGER", "PLUS", "MINUS", "LT", "STAR", "DOT", "TRUEDIV", "EQ",
           "ASSIGN", "IDENTIFIER", "LEFT_CURLY_BRACE", "LEFT_PAREN",
           "RIGHT_PAREN", "RIGHT_CURLY_BRACE", "COMMA", "SEMICOLON", "STRING">>

\* rule.matches(str, i) for a rule of RULES: the end of the match, -1 for None
MatchRule(name, str, i) ==
    LET lit(l) == IF StartsWith(str, i, l) THEN i + Len(l) ELSE -1
    IN CASE name = "INTEGER" ->                         \* \d+
              IF ScanWhile(str, i, Digits) > i THEN ScanWhile(str, i, Digits) ELSE -1
         [] name = "PLUS" -> lit(<<43>>)                \* \+
         [] name = "MINUS" -> lit(<<45>>)               \* \-
         [] name = "LT" -> lit(<<60>>)                  \* \<
         [] name = "STAR" -> lit(<<42>>)                \* \*
         [] name = "DOT" -> lit(<<46>>)                 \* \.
         [] name = "TRUEDIV" -> lit(<<47, 47>>)         \* \/\/
         [] name = "EQ" -> lit(<<61, 61>>)              \* ==
         [] name = "ASSIGN" -> lit(<<61>>)              \* =
         [] name = "IDENTIFIER" ->                      \* [a-zA-Z_][a-zA-Z0-9_]*
              IF i < Len(str) /\ At(str, i) \in Letters
              THEN ScanWhile(str, i + 1, Letters \cup Digits) ELSE -1
         [] name = "LEFT_CURLY_BRACE" -> lit(<<123>>)   \* \{
         [] name = "LEFT_PAREN" -> lit(<<40>>)          \* \(
         [] name = "RIGHT_PAREN" -> lit(<<41>>)         \* \)
         [] name = "RIGHT_CURLY_BRACE" -> lit(<<125>>)  \* \}
         [] name = "COMMA" -> lit(<<44>>)               \* ,
         [] name = "SEMICOLON" -> lit(<<59>>)           \* ;
         [] name = "STRING" -> lit(<<QUOTE>>)           \* "

\* KEYWORDS, each as the bytes of its text
KEYWORDS == {
    <<100, 101, 102>>,                       \* def
    <<99, 108, 97, 115, 115>>,               \* class
    <<114, 101, 116, 117, 114, 110>>,        \* return
    <<118, 97, 114>>,                        \* var
    <<119, 104, 105, 108, 101>>,             \* while
    <<105, 102>>,                            \* if
    <<111, 114>>,                            \* or
    <<97, 110, 100>>,                        \* and
    <<116, 114, 117, 101>>,                  \* true
    <<102, 97, 108, 115, 101>>,              \* false
    <<116, 114, 121>>,                       \* try
    <<101, 120, 99, 101, 112, 116>>,         \* except
    <<102, 105, 110, 97, 108, 108, 121>>,    \* finally
    <<97, 115>>,                             \* as
    <<114, 97, 105, 115, 101>>,              \* raise
    <<105, 109, 112, 111, 114, 116>> }       \* import

\* val.upper() of a keyword, as the token name it becomes
Upper(val) ==
    CASE val = <<100, 101, 102>> -> "DEF"
      [] val = <<99, 108, 97, 115, 115>> -> "CLASS"
      [] val = <<114, 101, 116, 117, 114, 110>> -> "RETURN"
      [] val = <<118, 97, 114>> -> "VAR"
      [] val = <<119, 104, 105, 108, 101>> -> "WHILE"
      [] val = <<105, 102>> -> "IF"
      [] val = <<111, 114>> -> "OR"
      [] val = <<97, 110, 100>> -> "AND"
      [] val = <<116, 114, 117, 101>> -> "TRUE"
      [] val = <<102, 97, 108, 115, 101>> -> "FALSE"
      [] val = <<116, 114, 121>> -> "TRY"
      [] val = <<101, 120, 99, 101, 112, 116>> -> "EXCEPT"
      [] val = <<102, 105, 110, 97, 108, 108, 121>> -> "FINALLY"
      [] val = <<97, 115>> -> "AS"
      [] val = <<114, 97, 105, 115, 101>> -> "RAISE"
      [] val = <<105, 109, 112, 111, 114, 116>> -> "IMPORT"

\* TOKENS: the rule names and the upper-cased keywords
TOKENS == {RULES[k] : k \in DOMAIN RULES} \cup {Upper(k) : k \in KEYWORDS}

\* STRING_RULES, in declared order
STRING_RULES == <<"ESC_QUOTE", "ESC_ESC", "ESC_SIMPLE", "ESC_HEX_8", "ESC_HEX_16",
                  "ESC_HEX_ANY", "ESC_UNRECOGNISED", "CHAR", "CLOSING_QUOTE">>

SimpleEscapes == {97, 98, 102, 110, 114, 116, 118, 48}    \* abfnrtv0

\* rule.matches(str, i) for a rule of STRING_RULES
MatchStringRule(name, str, i) ==
    LET esc == i + 1 < Len(str) /\ At(str, i) = BSL
        hexrun(j) == ScanWhile(str, j, HexDigits)
    IN CASE name = "ESC_QUOTE" ->                      \* \\"
              IF StartsWith(str, i, <<BSL, QUOTE>>) THEN i + 2 ELSE -1
         [] name = "ESC_ESC" ->                        \* \\\\
              IF StartsWith(str, i, <<BSL, BSL>>) THEN i + 2 ELSE -1
         [] name = "ESC_SIMPLE" ->                     \* \\[abfnrtv0]
              IF esc /\ At(str, i + 1) \in SimpleEscapes THEN i + 2 ELSE -1
         [] name = "ESC_HEX_8" ->                      \* \\x[0-9a-fA-F]{2}
              IF StartsWith(str, i, <<BSL, 120>>) /\ hexrun(i + 2) >= i + 4
              THEN i + 4 ELSE -1
         [] name = "ESC_HEX_16" ->                     \* \\u[0-9a-fA-F]{4}
              IF StartsWith(str, i, <<BSL, 117>>) /\ hexrun(i + 2) >= i + 6
              THEN i + 6 ELSE -1
         [] name = "ESC_HEX_ANY" ->                    \* \\u\{[0-9a-fA-F]+\}
              IF /\ StartsWith(str, i, <<BSL, 117, 123>>)
                 /\ hexrun(i + 3) > i + 3
                 /\ StartsWith(str, hexrun(i + 3), <<125>>)
              THEN hexrun(i + 3) + 1 ELSE -1
         [] name = "ESC_UNRECOGNISED" ->               \* \\[^abfnrtv0xu"\\]
              IF esc /\ At(str, i + 1) \notin SimpleEscapes \cup {120, 117, QUOTE, BSL}
              THEN i + 2 ELSE -1
         [] name = "CHAR" ->                           \* [^"\\]
              IF i < Len(str) /\ At(str, i) \notin {QUOTE, BSL} THEN i + 1 ELSE -1
         [] name = "CLOSING_QUOTE" ->                  \* "
              IF StartsWith(str, i, <<QUOTE>>) THEN i + 1 ELSE -1

\* the for loop over self.lexer.rules of the main lexer: the first rule, from
\* the k-th on, that matches at i, as <<name, end>>; <<>> when the loop falls
\* through to its else
RECURSIVE FirstRule(_, _, _)
FirstRule(str, i, k) ==
    IF k > Len(RULES) THEN <<>>
    ELSE IF MatchRule(RULES[k], str, i) >= 0
    THEN <<RULES[k], MatchRule(RULES[k], str, i)>>
    ELSE FirstRule(str, i, k + 1)

\* the same loop over the rules of the string lexer
RECURSIVE FirstStringRule(_, _, _)
FirstStringRule(str, i, k) ==
    IF k > Len(STRING_RULES) THEN <<>>
    ELSE IF MatchStringRule(STRING_RULES[k], str, i) >= 0
    THEN <<STRING_RULES[k], MatchStringRule(STRING_RULES[k], str, i)>>
    ELSE FirstStringRule(str, i, k + 1)

\* lg.ignore('\s+'): the one ignore rule of the main lexer
WhitespaceEnd(i, end) == IF end > i THEN end ELSE -1

MatchWhitespace(str, i) == WhitespaceEnd(i, ScanWhile(str, i, Space))

----------------------------------------------------------------------------
(* UTF-8: rpython.rlib.runicode, as lexer.py uses it.  The enumerated      *)
(* sources hold no surrogate code point.                                   *)

MaxUnicode == 1114111    \* 0x10FFFF: UNICHR raises ValueError above it

\* unicode_encode_utf_8(UNICHR(n), ...): the bytes of code point n
Utf8Encode(n) ==
    IF n < 128 THEN <<n>>
    ELSE IF n < 2048 THEN <<192 + (n \div 64), 128 + (n % 64)>>
    ELSE IF n < 65536
         THEN <<224 + (n \div 4096), 128 + ((n \div 64) % 64), 128 + (n % 64)>>
    ELSE <<240 + (n \div 262144), 128 + ((n \div 4096) % 64),
           128 + ((n \div 64) % 64), 128 + (n % 64)>>

\* whether str_decode_utf_8(val, len(val), 'strict', final=True) returns:
\* val is well-formed UTF-8 from offset i on
RECURSIVE Utf8Valid(_, _)
Utf8Valid(val, i) ==
    LET n == Len(val)
        b0 == At(val, i)
        cont(j) == j < n /\ At(val, j) \in 128..191
        in2(j, lo, hi) == j < n /\ At(val, j) \in lo..hi
    IN IF i >= n THEN TRUE
       ELSE IF b0 < 128 THEN Utf8Valid(val, i + 1)
       ELSE IF b0 \in 194..223 THEN cont(i + 1) /\ Utf8Valid(val, i + 2)
       ELSE IF b0 = 224 THEN in2(i + 1, 160, 191) /\ cont(i + 2) /\ Utf8Valid(val, i + 3)
       ELSE IF b0 = 237 THEN in2(i + 1, 128, 159) /\ cont(i + 2) /\ Utf8Valid(val, i + 3)
       ELSE IF b0 \in 225..239 THEN cont(i + 1) /\ cont(i + 2) /\ Utf8Valid(val, i + 3)
       ELSE IF b0 = 240
            THEN in2(i + 1, 144, 191) /\ cont(i + 2) /\ cont(i + 3) /\ Utf8Valid(val, i + 4)
       ELSE IF b0 \in 241..243
            THEN cont(i + 1) /\ cont(i + 2) /\ cont(i + 3) /\ Utf8Valid(val, i + 4)
       ELSE IF b0 = 244
            THEN in2(i + 1, 128, 143) /\ cont(i + 2) /\ cont(i + 3) /\ Utf8Valid(val, i + 4)
       ELSE FALSE

----------------------------------------------------------------------------
(* SRLexerStream *)

\* the column of _update_pos: last_nl is the index of the newline before the match
ColumnAfter(match_start, last_nl) ==
    IF last_nl < 0 THEN match_start + 1 ELSE match_start - last_nl

\* a variant of _update_pos that reads self._lineno after adding the newlines
\* of the match to it
UpdatePosLineAfter(str, ln, match_start, match_end) ==
    [idx |-> match_end,
     lineno |-> ln + Count(str, LF, match_start, match_end),
     range |-> SourceRange(match_start, match_end,
                           ln + Count(str, LF, match_start, match_end),
                           ColumnAfter(match_start, RFind(str, LF, match_start)))]

\* _update_pos(match_start, match_end) on a stream at line ln: the new idx and
\* _lineno, and the SourceRange it returns
UpdatePos(str, ln, match_start, match_end) ==
    [idx |-> match_end,
     lineno |-> ln + Count(str, LF, match_start, match_end),
     range |-> SourceRange(match_start, match_end, ln,
                           ColumnAfter(match_start, RFind(str, LF, match_start)))]

\* the start column of parse_error: last_nl is the index of the newline before idx
ErrorColumn(i, last_nl) == IF last_nl < 0 THEN i - 1 ELSE i - last_nl - 1

\* ParseError(msg, self.s.splitlines()[self._lineno - 1], ..., colno, colno + 1).
\* The subscript raises IndexError when the line is not there.
ParseErrorIn(msg, lines, ln, colno) ==
    IF ln - 1 >= Len(lines) THEN Crash("IndexError", "list index out of range")
    ELSE LexerParseError(msg, lines[ln], Filename, ln, colno, colno + 1)

\* parse_error(msg) on a stream at offset i and line ln
ParseErrorAt(msg, str, i, ln) ==
    ParseErrorIn(msg, SplitLines(str), ln, ErrorColumn(i, RFind(str, LF, i)))

\* what a call of next() comes to: a token ("token"), StopIteration ("stop")
\* or an exception ("raise"), with the stream's idx and _lineno after it and
\* the whitespace ranges it matched and dropped
NextResult(kind, tok, e, i, ln, skips) ==
    [kind |-> kind, tok |-> tok, exc |-> e, idx |-> i, lineno |-> ln, skipped |-> skips]

\* a variant of ReturnToken that forgets the whitespace dropped before the token
ReturnTokenForgetsSkips(name, value, up, skips) ==
    NextResult("token", <<Token(name, value, up.range)>>, NoExc, up.idx, up.lineno, <<>>)

\* return Token(name, value, source_pos), up being what _update_pos gave
ReturnToken(name, value, up, skips) ==
    NextResult("token", <<Token(name, value, up.range)>>, NoExc, up.idx, up.lineno, skips)

\* the for loop over self.lexer.rules of SRLexerStream.next(), m being the
\* first match
SRLexerStreamMatched(str, i, ln, m) ==
    IF m = <<>>
    THEN NextResult("raise", <<>>, ParseErrorAt("unrecognized token", str, i, ln),
                    i, ln, <<>>)
    ELSE ReturnToken(m[1], Slice(str, i, m[2]), UpdatePos(str, ln, i, m[2]), <<>>)

\* SRLexerStream.next() of the string lexer, which has no ignore rule, at
\* offset i and line ln
SRLexerStreamNext(str, i, ln) ==
    IF i >= Len(str) THEN NextResult("stop", <<>>, NoExc, i, ln, <<>>)
    ELSE SRLexerStreamMatched(str, i, ln, FirstStringRule(str, i, 1))

----------------------------------------------------------------------------
(* QuillLexerStream.lex_string *)

\* the value of an ESC_SIMPLE token: the control character its letter names
SimpleEscapeValue(c) ==
    CASE c = 97 -> 7 [] c = 98 -> 8 [] c = 102 -> 12 [] c = 110 -> 10
      [] c = 114 -> 13 [] c = 116 -> 9 [] c = 118 -> 11 [] c = 48 -> 0

\* whether hex_to_utf8(digits) raises: UNICHR of a value above MaxUnicode
HexRaises(digits) == HexInt(digits) > MaxUnicode

hex_to_utf8(digits) == Utf8Encode(HexInt(digits))

\* whether the branch of lex_string's loop for token t raises
PartRaises(t) ==
    CASE t.name \in {"ESC_HEX_8", "ESC_HEX_16"} ->
            HexRaises(Slice(t.value, 2, Len(t.value)))
      [] t.name = "ESC_HEX_ANY" -> HexRaises(Slice(t.value, 3, Len(t.value) - 1))
      [] OTHER -> FALSE

\* what lex_string's loop appends to parts for token t
\* a variant of the loop's last branch that keeps only the character after
\* the backslash of an ESC_UNRECOGNISED token
DecodePartDropsBackslash(t) ==
    IF t.name = "ESC_UNRECOGNISED" THEN <<t.value[2]>>
    ELSE IF t.name \in {"ESC_QUOTE", "ESC_ESC"} THEN <<t.value[2]>>
    ELSE t.value

DecodePart(t) ==
    CASE t.name = "ESC_QUOTE" -> <<QUOTE>>
      [] t.name = "ESC_ESC" -> <<BSL>>
      [] t.name = "ESC_SIMPLE" -> <<SimpleEscapeValue(t.value[2])>>
      [] t.name \in {"ESC_HEX_8", "ESC_HEX_16"} ->
            hex_to_utf8(Slice(t.value, 2, Len(t.value)))
      [] t.name = "ESC_HEX_ANY" -> hex_to_utf8(Slice(t.value, 3, Len(t.value) - 1))
      [] t.name \in {"ESC_UNRECOGNISED", "CHAR"} -> t.value

\* length = 1: the opening quote
StringLengthStart == 1

RECURSIVE LexStringLoop(_, _, _, _, _, _, _)

\* the body of lex_string's loop for token r.tok[1], length being the length
\* with this token counted; after CLOSING_QUOTE, the lines after the loop
LexStringToken(str, i, ln, parts, length, r) ==
    IF r.tok[1].name = "CLOSING_QUOTE"
    THEN IF ~Utf8Valid(parts, 0)
         THEN NextResult("raise", <<>>, Crash("UnicodeDecodeError", "invalid utf-8"),
                         i, ln, <<>>)
         ELSE ReturnToken("STRING", parts, UpdatePos(str, ln, i, i + length), <<>>)
    ELSE IF PartRaises(r.tok[1])
    THEN NextResult("raise", <<>>, Crash("ValueError", "unichr() arg not in range"),
                    i, ln, <<>>)
    ELSE LexStringLoop(str, i, ln, r.idx, r.lineno, parts \o DecodePart(r.tok[1]), length)

\* one turn of `for t in self.lexer.string_lexer.lex(...)`, r being what the
\* string lexer's next() came to
LexStringStep(str, i, ln, parts, length, r) ==
    IF r.kind = "stop"
    THEN NextResult("raise", <<>>, ParseErrorAt("unterminated string", str, i, ln),
                    i, ln, <<>>)
    ELSE IF r.kind = "raise" THEN NextResult("raise", <<>>, r.exc, i, ln, <<>>)
    ELSE LexStringToken(str, i, ln, parts, length + Len(r.tok[1].value), r)

\* lex_string() on the main stream at offset i (the opening quote) and line
\* ln: the loop over the string lexer's stream, which is at offset j and line
\* ln2 and has given parts and length so far
LexStringLoop(str, i, ln, j, ln2, parts, length) ==
    LexStringStep(str, i, ln, parts, length, SRLexerStreamNext(str, j, ln2))

lex_string(str, i, ln) ==
    LexStringLoop(str, i, ln, i + 1, ln, <<>>, StringLengthStart)

----------------------------------------------------------------------------
(* QuillLexerStream.next *)

\* the names after which whitespace holding a newline ends the statement
\* a variant of the tuple without INTEGER
AutoSemicolonAfterWithoutInteger == {"RIGHT_CURLY_BRACE", "RIGHT_PAREN", "IDENTIFIER"}

AutoSemicolonAfter == {"RIGHT_CURLY_BRACE", "RIGHT_PAREN", "IDENTIFIER", "INTEGER"}

\* the name of a token of rule `rule` with text val: keywords are reclassified
TokenName(rule, val) == IF val \in KEYWORDS THEN Upper(val) ELSE rule

\* the for loop over self.lexer.rules of next(), m being the first match
MatchedToken(str, i, ln, skips, m) ==
    IF m = <<>>
    THEN NextResult("raise", <<>>, ParseErrorAt("unrecognized token", str, i, ln),
                    i, ln, skips)
    ELSE IF m[1] = "STRING"
    THEN [lex_string(str, i, ln) EXCEPT !.skipped = skips]
    ELSE ReturnToken(TokenName(m[1], Slice(str, i, m[2])), Slice(str, i, m[2]),
                     UpdatePos(str, ln, i, m[2]), skips)

MatchToken(str, i, ln, skips) ==
    MatchedToken(str, i, ln, skips, FirstRule(str, i, 1))

RECURSIVE QuillNext(_, _, _, _, _)

\* the whitespace rule matched str[i:w] and _update_pos gave up
MatchedWhitespace(str, i, w, last, skips, up) ==
    IF LF \notin {At(str, k) : k \in i..(w - 1)}
    THEN QuillNext(str, up.idx, up.lineno, last, Append(skips, up.range))
    ELSE IF last = <<>>
    THEN \* self._last_token is None: None has no attribute name
         NextResult("raise", <<>>,
                    Crash("AttributeError", "'NoneType' object has no attribute 'name'"),
                    up.idx, up.lineno, skips)
    ELSE IF last[1].name \notin AutoSemicolonAfter
    THEN QuillNext(str, up.idx, up.lineno, last, Append(skips, up.range))
    ELSE ReturnToken("SEMICOLON", Slice(str, i, w), up, skips)

\* one turn of the while loop of next(), w being the end of the whitespace
\* match, -1 when there is none
WhitespaceOrToken(str, i, ln, last, skips, w) ==
    IF w < 0 THEN MatchToken(str, i, ln, skips)
    ELSE MatchedWhitespace(str, i, w, last, skips, UpdatePos(str, ln, i, w))

\* next() on the main stream at offset i and line ln, with _last_token last;
\* skips are the whitespace ranges this call has dropped so far
QuillNext(str, i, ln, last, skips) ==
    IF i >= Len(str) THEN NextResult("stop", <<>>, NoExc, i, ln, skips)
    ELSE WhitespaceOrToken(str, i, ln, last, skips, MatchWhitespace(str, i))

----------------------------------------------------------------------------
(* The grammar of get_parser() *)

Prod(name, syms, fn) == [name |-> name, syms |-> syms, fn |-> fn]

\* the productions, in the order the decorators register them (stacked
\* decorators register bottom first)
Productions == <<
    Prod("program", <<"body">>, "program_body"),
    Prod("body", <<>>, "body_empty"),
    Prod("body", <<"body", "body_element">>, "body_body_element"),
    Prod("body_element", <<"function">>, "body_function"),
    Prod("body_element", <<"class_definition">>, "body_element_class_definition"),
    Prod("class_definition",
         <<"CLASS", "IDENTIFIER", "LEFT_CURLY_BRACE", "body", "RIGHT_CURLY_BRACE">>,
         "class_definition"),
    Prod("class_definition",
         <<"CLASS", "IDENTIFIER", "LEFT_PAREN", "IDENTIFIER", "RIGHT_PAREN",
           "LEFT_CURLY_BRACE", "body", "RIGHT_CURLY_BRACE">>,
         "class_definition_inheritance"),
    Prod("function",
         <<"FUNCTION", "IDENTIFIER", "arglist", "LEFT_CURLY_BRACE", "function_body",
           "RIGHT_CURLY_BRACE">>,
         "function_function_body"),
    Prod("function",
         <<"FUNCTION", "IDENTIFIER", "arglist", "LEFT_CURLY_BRACE", "function_body",
           "expression", "RIGHT_CURLY_BRACE">>,
         "function_function_body_implicit_return"),
    Prod("function_body", <<>>, "function_body_empty"),
    Prod("function_body", <<"function_body", "statement">>, "function_body_statement"),
    Prod("statement", <<"expression", "SEMICOLON">>, "statement_expression"),
    Prod("statement", <<"VAR", "IDENTIFIER", "var_decl", "SEMICOLON">>,
         "statement_var_decl"),
    Prod("var_decl", <<>>, "var_decl_empty"),
    Prod("var_decl", <<"COMMA", "IDENTIFIER", "var_decl">>, "var_decl_identifier"),
    Prod("statement", <<"IDENTIFIER", "ASSIGN", "expression", "SEMICOLON">>,
         "statement_identifier_assign_expr"),
    Prod("statement",
         <<"atom", "DOT", "IDENTIFIER", "ASSIGN", "expression", "SEMICOLON">>,
         "statement_setattr"),
    Prod("statement", <<"RETURN", "expression", "SEMICOLON">>, "statement_return"),
    Prod("statement",
         <<"WHILE", "expression", "LEFT_CURLY_BRACE", "function_body",
           "RIGHT_CURLY_BRACE">>,
         "statement_while_loop"),
    Prod("statement",
         <<"IF", "expression", "LEFT_CURLY_BRACE", "function_body",
           "RIGHT_CURLY_BRACE">>,
         "statement_if_block"),
    Prod("statement", <<"RAISE", "expression", "SEMICOLON">>, "statement_raise"),
    Prod("statement",
         <<"TRY", "LEFT_CURLY_BRACE", "function_body", "RIGHT_CURLY_BRACE", "EXCEPT",
           "IDENTIFIER", "LEFT_CURLY_BRACE", "function_body", "RIGHT_CURLY_BRACE">>,
         "statement_try_except"),
    Prod("arglist", <<"LEFT_PAREN", "RIGHT_PAREN">>, "arglist"),
    Prod("arglist", <<"LEFT_PAREN", "IDENTIFIER", "var_decl", "RIGHT_PAREN">>,
         "arglist_non_empty"),
    Prod("expression", <<"INTEGER">>, "expression_number"),
    Prod("expression", <<"STRING">>, "expression_string"),
    Prod("expression", <<"atom">>, "expression_atom"),
    Prod("expression", <<"expression", "OR", "expression">>, "expression_or_expression"),
    Prod("expression", <<"expression", "AND", "expression">>,
         "expression_and_expression"),
    Prod("atom", <<"TRUE">>, "atom_true"),
    Prod("atom", <<"IDENTIFIER">>, "atom_identifier"),
    Prod("atom", <<"FALSE">>, "atom_false"),
    Prod("atom", <<"atom", "LEFT_PAREN", "expression_list", "RIGHT_PAREN">>, "atom_call"),
    Prod("atom", <<"LEFT_PAREN", "expression", "RIGHT_PAREN">>,
         "atom_paren_expression_paren"),
    Prod("atom", <<"atom", "DOT", "IDENTIFIER">>, "atom_dot_identifier"),
    Prod("expression", <<"expression", "EQ", "expression">>, "expression_lt_expression"),
    Prod("expression", <<"expression", "LT", "expression">>, "expression_lt_expression"),
    Prod("expression", <<"expression", "TRUEDIV", "expression">>,
         "expression_lt_expression"),
    Prod("expression", <<"expression", "STAR", "expression">>,
         "expression_lt_expression"),
    Prod("expression", <<"expression", "MINUS", "expression">>,
         "expression_lt_expression"),
    Prod("expression", <<"expression", "PLUS", "expression">>,
         "expression_lt_expression"),
    Prod("expression_list", <<>>, "expression_list_empty"),
    Prod("expression_list", <<"expression", "expression_sublist">>,
         "expression_list_expression"),
    Prod("expression_sublist", <<>>, "expression_sublist_empty"),
    Prod("expression_sublist", <<"COMMA", "expression", "expression_sublist">>,
         "expression_sublist_expression") >>

\* the precedence table: the level of each operator token, lowest first; all
\* are left-associative
PrecedenceLevel(tok) ==
    CASE tok = "AND" -> 1
      [] tok = "OR" -> 2
      [] tok \in {"EQ", "LT"} -> 3
      [] tok \in {"PLUS", "MINUS"} -> 4
      [] tok \in {"TRUEDIV", "STAR"} -> 5
      [] tok = "DOT" -> 6
      [] tok = "LEFT_PAREN" -> 7
      [] OTHER -> 0

\* rply.ParserGenerator(TOKENS, ...): the terminals are the lexer's token
\* names; any other symbol of a production is a nonterminal
Terminals == TOKENS

EndMarker == "$end"

----------------------------------------------------------------------------
(* The LR automaton pg.build() makes of the grammar.  A parser state is    *)
(* its set of LR items; an item is production p (0 is the start            *)
(* production S' -> program) with d symbols before the dot.  A completed   *)
(* production is reduced on the tokens that can follow its name; a token   *)
(* is shifted only when it is a terminal, so a symbol that is neither in   *)
(* TOKENS nor the name of a production can never be matched.               *)

NProd == Len(Productions)

Rhs(p) == IF p = 0 THEN <<Productions[1].name>> ELSE Productions[p].syms

Lhs(p) == IF p = 0 THEN "S'" ELSE Productions[p].name

NonTerminals ==
    {Productions[k].name : k \in 1..NProd}
        \cup (UNION {{Productions[k].syms[j] : j \in DOMAIN Productions[k].syms}
                        : k \in 1..NProd} \ Terminals)

Item(p, d) == [p |-> p, d |-> d]

Complete(it) == it.d = Len(Rhs(it.p))

\* the symbol after the dot, "" when the item is complete
SymAfter(it) == IF Complete(it) THEN "" ELSE Rhs(it.p)[it.d + 1]

\* the items the closure adds for the symbols after the dots of I
ClosureItems(want) ==
    {Item(q, 0) : q \in {q \in 1..NProd : Productions[q].name \in want}}

RECURSIVE Closure(_)
ClosureStep(I, more) == IF more \subseteq I THEN I ELSE Closure(I \cup more)

Closure(I) == ClosureStep(I, ClosureItems({SymAfter(it) : it \in I}))

Goto(I, X) == Closure({Item(it.p, it.d + 1) : it \in {it \in I : SymAfter(it) = X}})

\* the names that derive the empty string: the least fixed point
RECURSIVE NullableFix(_)
NullableStep(N, N2) == IF N2 = N THEN N ELSE NullableFix(N2)

NullableFix(N) ==
    NullableStep(N, N \cup {Productions[k].name :
                              k \in {k \in 1..NProd :
                                        \A j \in DOMAIN Productions[k].syms :
                                            Productions[k].syms[j] \in N}})

Nullable == NullableFix({})

\* the first terminals of a sequence of symbols, given those of each nonterminal
RECURSIVE FirstOfSeq(_, _, _)
FirstOfSeq(F, syms, j) ==
    IF j > Len(syms) THEN {}
    ELSE IF syms[j] \in Terminals THEN {syms[j]}
    ELSE F[syms[j]] \cup (IF syms[j] \in Nullable THEN FirstOfSeq(F, syms, j + 1) ELSE {})

RECURSIVE FirstFix(_)
FirstStep(F, F2) == IF F2 = F THEN F ELSE FirstFix(F2)

FirstFix(F) ==
    FirstStep(F, [A \in NonTerminals |->
                     F[A] \cup UNION {FirstOfSeq(F, Productions[k].syms, 1) :
                                         k \in {k \in 1..NProd : Productions[k].name = A}}])

First == FirstFix([A \in NonTerminals |-> {}])

\* whether every symbol of syms from position j on can derive the empty string
AllNullable(syms, j) == \A k \in j..Len(syms) : syms[k] \in Nullable

\* the places <<production, position>> where the grammar uses the name A
Uses(A) ==
    {u \in (1..NProd) \X (1..9) :
        u[2] <= Len(Productions[u[1]].syms) /\ Productions[u[1]].syms[u[2]] = A}

\* what the use of a name at position j of production k lets follow it
FollowOfUse(Fo, syms, name, j) ==
    FirstOfSeq(First, syms, j + 1) \cup (IF AllNullable(syms, j + 1) THEN Fo[name] ELSE {})

RECURSIVE FollowFix(_)
FollowStep(Fo, F2) == IF F2 = Fo THEN Fo ELSE FollowFix(F2)

FollowFix(Fo) ==
    FollowStep(Fo, [A \in NonTerminals |->
                      Fo[A] \cup UNION {FollowOfUse(Fo, Productions[u[1]].syms,
                                                    Productions[u[1]].name, u[2])
                                           : u \in Uses(A)}])

\* the tokens that can follow each name, the end of input after the start symbol
Follow ==
    FollowFix([A \in NonTerminals |->
                  IF A = Productions[1].name THEN {EndMarker} ELSE {}])

\* the precedence of a production: that of its rightmost terminal
RECURSIVE ProdLevelFrom(_, _)
ProdLevelFrom(syms, j) ==
    IF j = 0 THEN 0
    ELSE IF syms[j] \in Terminals THEN PrecedenceLevel(syms[j])
    ELSE ProdLevelFrom(syms, j - 1)

ProdLevel(p) == ProdLevelFrom(Rhs(p), Len(Rhs(p)))

LRAct(kind, p) == [kind |-> kind, p |-> p]

Min(S) == CHOOSE x \in S : \A y \in S : x <= y

\* a shift/reduce choice between token a and production p is settled by
\* precedence: reduce when the production binds tighter, or as tight (every
\* level of this grammar being left-associative)
ResolveShiftReduce(p, tokLevel, prodLevel) ==
    IF tokLevel < prodLevel \/ (tokLevel = prodLevel /\ prodLevel > 0)
    THEN LRAct("reduce", p) ELSE LRAct("shift", 0)

\* the entry for a state that can shift a (canShift) and reduce the
\* productions reds on it; a reduce/reduce choice goes to the earlier production
LREntry(a, canShift, reds) ==
    IF reds = {} THEN (IF canShift THEN LRAct("shift", 0) ELSE LRAct("error", 0))
    ELSE IF ~canShift THEN LRAct("reduce", Min(reds))
    ELSE ResolveShiftReduce(Min(reds), PrecedenceLevel(a), ProdLevel(Min(reds)))

\* lr_action[state][token]: shift, reduce by p, accept, or no entry ("error")
LRAction(I, a) ==
    IF a = EndMarker /\ Item(0, 1) \in I THEN LRAct("accept", 0)
    ELSE LREntry(a, a \in Terminals /\ \E it \in I : SymAfter(it) = a,
                 {it.p : it \in {it \in I : /\ it.p # 0
                                            /\ Complete(it)
                                            /\ a \in Follow[Lhs(it.p)]}})

\* the production of a state whose only action, over every token, is one reduction
OnlyReduction(acts) ==
    IF Cardinality(acts) = 1 /\ \A x \in acts : x.kind = "reduce"
    THEN Min({x.p : x \in acts}) ELSE 0

\* default_reductions[state]: 0 when the state has none
DefaultReduction(I) ==
    OnlyReduction({LRAction(I, a) : a \in Terminals \cup {EndMarker}} \ {LRAct("error", 0)})

State0 == Closure({Item(0, 0)})

----------------------------------------------------------------------------
(* The grammar actions *)

\* a node of nolang.astnodes: its class and the arguments of its constructor
AstNode(class, args) == [node |-> class, args |-> args]

\* get_element_list() and get_names(): the list the node was made with
GetList(n) == n.args[1]

\* int(digits)
RECURSIVE DecInt(_)
DecInt(digits) ==
    IF digits = <<>> THEN 0
    ELSE 10 * DecInt(SubSeq(digits, 1, Len(digits) - 1)) + (digits[Len(digits)] - 48)

\* expression_string(state, p): the assert fails when end < 0
ExpressionStringAsserts(p) == Len(p[1].value) - 1 < 0

expression_string(p) ==
    LET str == p[1].value
        end == Len(str) - 1
    IN AstNode("String", <<Slice(str, 1, end)>>)

\* whether the function of a production raises on the symbols p
BuildRaises(fn, p) == fn = "expression_string" /\ ExpressionStringAsserts(p)

\* the value the function fn of a production returns for the symbols p
\* (p[1] is the code's p[0])
Build(fn, p) ==
    CASE fn \in {"program_body", "body_function", "body_element_class_definition",
                 "expression_atom"} -> p[1]
      [] fn = "body_empty" -> AstNode("Program", << <<>> >>)
      [] fn = "body_body_element" -> AstNode("Program", <<Append(GetList(p[1]), p[2])>>)
      [] fn = "class_definition" -> AstNode("ClassDefinition", <<p[2].value, p[4]>>)
      [] fn = "class_definition_inheritance" ->
            AstNode("ClassDefinition", <<p[2].value, p[7], p[4].value>>)
      [] fn = "function_function_body" ->
            AstNode("Function", <<p[2].value, GetList(p[3]), GetList(p[5])>>)
      [] fn = "function_function_body_implicit_return" ->
            AstNode("Function",
                    <<p[2].value, GetList(p[3]),
                      Append(GetList(p[5]), AstNode("Return", <<p[6]>>))>>)
      [] fn = "function_body_empty" -> AstNode("FunctionBody", << <<>> >>)
      [] fn = "function_body_statement" ->
            AstNode("FunctionBody", <<Append(GetList(p[1]), p[2])>>)
      [] fn = "statement_expression" -> AstNode("Statement", <<p[1]>>)
      [] fn = "statement_var_decl" ->
            AstNode("VarDeclaration", << <<p[2].value>> \o GetList(p[3]) >>)
      [] fn = "var_decl_empty" -> AstNode("VarDeclPartial", << <<>> >>)
      [] fn = "var_decl_identifier" ->
            AstNode("VarDeclPartial", << <<p[2].value>> \o GetList(p[3]) >>)
      [] fn = "statement_identifier_assign_expr" ->
            AstNode("Assignment", <<p[1].value, p[3]>>)
      [] fn = "statement_setattr" -> AstNode("Setattr", <<p[1], p[3].value, p[5]>>)
      [] fn = "statement_return" -> AstNode("Return", <<p[2]>>)
      [] fn = "statement_while_loop" -> AstNode("While", <<p[2], GetList(p[4])>>)
      [] fn = "statement_if_block" -> AstNode("If", <<p[2], GetList(p[4])>>)
      [] fn = "statement_raise" -> AstNode("Raise", <<p[2]>>)
      [] fn = "statement_try_except" ->
            AstNode("TryExcept",
                    <<GetList(p[3]), <<p[6].value>>, GetList(p[8]), "None">>)
      [] fn = "arglist" -> AstNode("ArgList", << <<>> >>)
      [] fn = "arglist_non_empty" ->
            AstNode("ArgList", << <<p[2].value>> \o GetList(p[3]) >>)
      [] fn = "expression_number" -> AstNode("Number", <<DecInt(p[1].value)>>)
      [] fn = "expression_string" -> expression_string(p)
      [] fn = "expression_or_expression" -> AstNode("Or", <<p[1], p[3]>>)
      [] fn = "expression_and_expression" -> AstNode("And", <<p[1], p[3]>>)
      [] fn = "atom_true" -> AstNode("TrueNode", <<>>)
      [] fn = "atom_identifier" -> AstNode("Identifier", <<p[1].value>>)
      [] fn = "atom_false" -> AstNode("FalseNode", <<>>)
      [] fn = "atom_call" -> AstNode("Call", <<p[1], GetList(p[3])>>)
      [] fn = "atom_paren_expression_paren" -> p[2]
      [] fn = "atom_dot_identifier" -> AstNode("Getattr", <<p[1], p[3].value>>)
      [] fn = "expression_lt_expression" -> AstNode("BinOp", <<p[2].value, p[1], p[3]>>)
      [] fn = "expression_list_empty" -> AstNode("ExpressionListPartial", << <<>> >>)
      [] fn = "expression_list_expression" ->
            AstNode("ExpressionListPartial", << <<p[1]>> \o GetList(p[2]) >>)
      [] fn = "expression_sublist_empty" -> AstNode("ExpressionListPartial", << <<>> >>)
      [] fn = "expression_sublist_expression" ->
            AstNode("ExpressionListPartial", << <<p[2]>> \o GetList(p[3]) >>)

\* nolang.parser.ParseError(line, filename, lineno, start_colno, end_colno)
ParserParseError(line, filename, ln, start_colno, end_colno) ==
    [type |-> "parser.ParseError", msg |-> "", line |-> line, filename |-> filename,
     lineno |-> ln, start_colno |-> start_colno, end_colno |-> end_colno]

\* the token the engine makes at the end of the stream: Token("$end", "$end"),
\* whose source position is None
EndToken == Token(EndMarker, <<36, 101, 110, 100>>, NoRange)

\* errorhandler(state, lookahead): the exception it raises
errorhandler(input, la) ==
    LET lines == SplitLines(input)
        sourcepos == la.source_pos
    IN IF sourcepos = NoRange
       THEN Crash("AttributeError", "'NoneType' object has no attribute 'lineno'")
       ELSE IF sourcepos.lineno - 1 >= Len(lines)
       THEN Crash("IndexError", "list index out of range")
       ELSE ParserParseError(lines[sourcepos.lineno], "<input>", sourcepos.lineno,
                             sourcepos.colno - 1, Len(la.value) + sourcepos.colno - 1)

----------------------------------------------------------------------------
(* The sources *)

MaxLen == 4

\* a, 1, newline, space, double quote, backslash, +, x
Alphabet == {97, 49, LF, 32, QUOTE, BSL, 43, 120}

ShortSources == UNION {[1..n -> Alphabet] : n \in 0..MaxLen}

\* `def foo() { return 13 }`
SimpleFunctionSource ==
    <<100, 101, 102, 32, 102, 111, 111, 40, 41, 32, 123, 32, 114, 101, 116,
      117, 114, 110, 32, 49, 51, 32, 125>>

\* the source of test_simple_function, which begins with a newline
TestSimpleFunctionSource ==
    <<10, 32, 32, 32, 32, 32, 32, 32, 32, 32, 32, 32, 32, 100, 101, 102,
      32, 102, 111, 111, 40, 41, 32, 123, 10, 32, 32, 32, 32, 32, 32, 32,
      32, 32, 32, 32, 32, 32, 32, 32, 32, 114, 101, 116, 117, 114, 110, 32,
      49, 51, 10, 32, 32, 32, 32, 32, 32, 32, 32, 32, 32, 32, 32, 125, 10,
      10, 32, 32, 32, 32, 32, 32, 32, 32, 32, 32, 32, 32, 100, 101, 102,
      32, 109, 97, 105, 110, 40, 41, 32, 123, 10, 32, 32, 32, 32, 32, 32,
      32, 32, 32, 32, 32, 32, 32, 32, 32, 32, 114, 101, 116, 117, 114, 110,
      32, 102, 111, 111, 40, 41, 10, 32, 32, 32, 32, 32, 32, 32, 32, 32,
      32, 32, 32, 125, 10, 32, 32, 32, 32, 32, 32, 32, 32>>

\* `def main() { return foo(a=10, 3) }`
NamedArgsSource ==
    <<100, 101, 102, 32, 109, 97, 105, 110, 40, 41, 32, 123, 32, 114, 101,
      116, 117, 114, 110, 32, 102, 111, 111, 40, 97, 61, 49, 48, 44, 32,
      51, 41, 32, 125>>

\* the source of test_named_args_illegal, which begins with a newline
TestNamedArgsSource ==
    <<10, 32, 32, 32, 32, 32, 32, 32, 32, 32, 32, 32, 32, 100, 101, 102,
      32, 102, 111, 111, 40, 97, 44, 32, 98, 41, 32, 123, 10, 32, 32, 32,
      32, 32, 32, 32, 32, 32, 32, 32, 32, 32, 32, 32, 32, 114, 101, 116,
      117, 114, 110, 32, 97, 32, 43, 32, 98, 10, 32, 32, 32, 32, 32, 32,
      32, 32, 32, 32, 32, 32, 125, 10, 10, 32, 32, 32, 32, 32, 32, 32, 32,
      32, 32, 32, 32, 100, 101, 102, 32, 109, 97, 105, 110, 40, 41, 32,
      123, 10, 32, 32, 32, 32, 32, 32, 32, 32, 32, 32, 32, 32, 32, 32, 32,
      32, 114, 101, 116, 117, 114, 110, 32, 102, 111, 111, 40, 97, 61, 49,
      48, 44, 32, 51, 41, 10, 32, 32, 32, 32, 32, 32, 32, 32, 32, 32, 32,
      32, 125, 10, 32, 32, 32, 32, 32, 32, 32, 32>>

\* longer sources: the programs of the tests, class definitions, string
\* literals with escapes, newlines after each kind of token
Samples ==
    {SimpleFunctionSource, TestSimpleFunctionSource, NamedArgsSource,
     TestNamedArgsSource}
    \cup {
    <<97, 10, 98>>,
    <<97, 32, 43, 10, 98>>,
    <<97, 32, 10, 98>>,
    <<49, 10, 43>>,
    <<97, 41, 10, 125, 10, 34, 97, 34, 10, 44>>,
    <<99, 108, 97, 115, 115, 32, 97, 32, 123, 32, 125>>,
    <<99, 108, 97, 115, 115, 32, 97, 40, 98, 41, 32, 123, 32, 125>>,
    <<99, 108, 97, 115, 115, 32, 97, 32, 123, 32, 99, 108, 97, 115, 115,
      32, 98, 32, 123, 32, 125, 32, 125>>,
    <<99, 108, 97, 115, 115, 32, 97, 32, 123, 32, 125, 10, 99, 108, 97,
      115, 115, 32, 98, 32, 123, 32, 125, 10>>,
    <<99, 108, 97, 115, 115, 32, 97, 32, 123, 10, 32, 32, 49, 32, 125>>,
    <<99, 108, 97, 115, 115>>,
    <<99, 108, 97, 115, 115, 32, 97, 32, 123>>,
    <<99, 108, 97, 115, 115, 32, 34, 97, 98, 34>>,
    <<99, 108, 97, 115, 115, 32, 97, 10, 123, 32, 125>>,
    <<99, 108, 97, 115, 115, 32, 97, 32, 123, 32, 34, 34, 32, 125>>,
    <<34, 97, 98, 99, 34>>,
    <<34, 97, 98, 99, 92>>,
    <<34, 97, 98, 99>>,
    <<97, 10, 34, 97, 98, 99, 92>>,
    <<34, 97, 10, 98, 99>>,
    <<34, 92, 120, 52, 49, 34>>,
    <<34, 92, 117, 48, 48, 52, 49, 34>>,
    <<34, 92, 117, 123, 52, 49, 125, 34>>,
    <<34, 92, 117, 49, 50, 34>>,
    <<34, 92, 120, 97, 34>>,
    <<34, 92, 113, 34>>,
    <<34, 97, 92, 113, 98, 34>>,
    <<34, 92, 117, 123, 49, 49, 48, 48, 48, 48, 125, 34>>,
    <<34, 92, 110, 92, 34, 34>>,
    <<97, 32, 61, 32, 34, 92, 92, 34>>
    }

Sources == ShortSources \cup Samples

----------------------------------------------------------------------------
(* The state after get_lexer().lex(filename, s) and get_parser() *)

Running == [kind |-> "running", ast |-> <<>>, exc |-> NoExc]

Raised(e) == [kind |-> "raised", ast |-> <<>>, exc |-> e]

Parsed(node) == [kind |-> "ast", ast |-> <<node>>, exc |-> NoExc]

StackEntry(st, sym) == [st |-> st, sym |-> sym]

Init ==
    /\ s \in Sources
    /\ idx = 0
    /\ lineno = 1
    /\ last_token = <<>>
    /\ stream = "open"
    /\ exc = NoExc
    /\ emitted = <<>>
    /\ skipped = <<>>
    /\ pstack = <<StackEntry(State0, EndToken)>>
    /\ lookahead = <<>>
    /\ result = Running

\* the effect of one call of next() on the stream's state
CallNext(r) ==
    /\ idx' = r.idx
    /\ lineno' = r.lineno
    /\ skipped' = skipped \o r.skipped
    /\ IF r.kind = "token"
       THEN /\ last_token' = r.tok
            /\ emitted' = Append(emitted, r.tok[1])
            /\ stream' = "open"
            /\ exc' = NoExc
       ELSE /\ UNCHANGED <<last_token, emitted>>
            /\ stream' = IF r.kind = "stop" THEN "stopped" ELSE "raised"
            /\ exc' = r.exc
    /\ UNCHANGED s

\* one step of `for token in stream`: the caller drains the token stream
StreamNext ==
    /\ stream = "open"
    /\ CallNext(QuillNext(s, idx, lineno, last_token, <<>>))
    /\ UNCHANGED <<pstack, lookahead, result>>

Next == StreamNext

\* the lexer alone: get_lexer().lex(filename, s), drained by its caller
Spec == Init /\ [][Next]_vars

----------------------------------------------------------------------------
(* The parse: get_parser().parse(get_lexer().lex(filename, s), state), the  *)
(* engine's loop, one iteration per step                                   *)

Top == pstack[Len(pstack)]

\* _reduce_production: the grammar action fn of production p is called on
\* targ, the symbols of the right-hand side, over the stack base left below
ReduceOnto(p, fn, targ, base) ==
    IF BuildRaises(fn, targ)
    THEN /\ result' = Raised(Crash("AssertionError", ""))
         /\ UNCHANGED pstack
    ELSE /\ pstack' = Append(base, StackEntry(Goto(base[Len(base)].st, Lhs(p)),
                                              Build(fn, targ)))
         /\ UNCHANGED result

\* the n symbols on top of the stack
TopSyms(n) == [k \in 1..n |-> pstack[Len(pstack) - n + k].sym]

\* _reduce_production(t, symstack, statestack, state)
ReduceProduction(p) ==
    ReduceOnto(p, Productions[p].fn, TopSyms(Len(Rhs(p))),
               SubSeq(pstack, 1, Len(pstack) - Len(Rhs(p))))

\* the state has a default reduction: it is made without a lookahead
ParserDefaultReduce ==
    /\ result = Running
    /\ \E p \in {DefaultReduction(Top.st)} :
          /\ p # 0
          /\ ReduceProduction(p)
    /\ UNCHANGED <<lexvars, lookahead>>

\* next(tokenizer) came to r: StopIteration gives the end token, any other
\* exception leaves the parse
PullNext(r) ==
    /\ CallNext(r)
    /\ lookahead' = IF r.kind = "token" THEN r.tok
                    ELSE IF r.kind = "stop" THEN <<EndToken>> ELSE <<>>
    /\ result' = IF r.kind = "raise" THEN Raised(r.exc) ELSE Running

\* lookahead is None: next(tokenizer)
ParserPull ==
    /\ result = Running
    /\ lookahead = <<>>
    /\ DefaultReduction(Top.st) = 0
    /\ PullNext(QuillNext(s, idx, lineno, last_token, <<>>))
    /\ UNCHANGED pstack

\* the action of the state on the lookahead, when it needs one
ActionOnLookahead ==
    IF result = Running /\ lookahead # <<>> /\ DefaultReduction(Top.st) = 0
    THEN LRAction(Top.st, lookahead[1].name)
    ELSE LRAct("none", 0)

ParserShift ==
    /\ \E act \in {ActionOnLookahead} : act.kind = "shift"
    /\ pstack' = Append(pstack, StackEntry(Goto(Top.st, lookahead[1].name), lookahead[1]))
    /\ lookahead' = <<>>
    /\ UNCHANGED <<lexvars, result>>

ParserReduce ==
    /\ \E act \in {ActionOnLookahead} :
          /\ act.kind = "reduce"
          /\ ReduceProduction(act.p)
    /\ UNCHANGED <<lexvars, lookahead>>

ParserAccept ==
    /\ \E act \in {ActionOnLookahead} : act.kind = "accept"
    /\ result' = Parsed(Top.sym)
    /\ UNCHANGED <<lexvars, pstack, lookahead>>

\* no action for the lookahead: self.error_handler(state, lookahead)
ParserError ==
    /\ \E act \in {ActionOnLookahead} : act.kind = "error"
    /\ result' = Raised(errorhandler(s, lookahead[1]))
    /\ UNCHANGED <<lexvars, pstack, lookahead>>

NextParse ==
    \/ ParserDefaultReduce
    \/ ParserPull
    \/ ParserShift
    \/ ParserReduce
    \/ ParserAccept
    \/ ParserError

SpecParse == Init /\ [][NextParse]_vars

----------------------------------------------------------------------------
(* The action of `expression : STRING` on the token lex_string returns *)

ReduceString ==
    /\ result = Running
    /\ last_token # <<>>
    /\ last_token[1].name = "STRING"
    /\ result' = IF BuildRaises("expression_string", last_token)
                 THEN Raised(Crash("AssertionError", ""))
                 ELSE Parsed(Build("expression_string", last_token))
    /\ UNCHANGED <<lexvars, pstack, lookahead>>

LexString ==
    /\ result = Running
    /\ StreamNext

NextString == LexString \/ ReduceString

SpecString == Init /\ [][NextString]_vars

----------------------------------------------------------------------------
(* Properties *)

HasNewline(str, a, b) == \E k \in a..(b - 1) : At(str, k) = LF

\* the 1-based column of offset o on its line
ColumnOf(str, o) == o - RFind(str, LF, o)

\* the 1-based number of the line offset o is on
LineOf(str, o) == 1 + Count(str, LF, 0, o)

IsDiagnostic(e) == e.type \in {"lexer.ParseError", "parser.ParseError"}

\* a SEMICOLON token made of a whitespace run, not of the text `;`
Synthetic(tok) == tok.name = "SEMICOLON" /\ tok.value # <<59>>

\* the bytes 'def'
DefText == <<100, 101, 102>>

\* C1: a source that defines a function with `def` is accepted: the kind of
\* the token the lexer emits for the text `def` is the terminal that starts a
\* production of `function`, and `def foo() { return 13 }` does not end in an
\* exception but in a Program node.
C1_DefFunctionAccepted ==
    /\ \A k \in DOMAIN emitted :
          emitted[k].value = DefText =>
              \E p \in 1..NProd : /\ Productions[p].name = "function"
                                  /\ Productions[p].syms[1] = emitted[k].name
    /\ (s = SimpleFunctionSource /\ result # Running) =>
           /\ result.kind = "ast"
           /\ result.ast[1].node = "Program"

\* C2: whatever the source, a parse ends in a Program or in one
\* LexError/ParseError diagnostic, never in another kind of exception.
C2_OnlyDiagnostics ==
    result # Running =>
        \/ result.kind = "ast" /\ result.ast[1].node = "Program"
        \/ result.kind = "raised" /\ IsDiagnostic(result.exc)

\* C3: a whitespace run with a newline after an emitted token gives a
\* synthetic SEMICOLON exactly when that token's kind is RIGHT_CURLY_BRACE,
\* RIGHT_PAREN, IDENTIFIER or INTEGER, and is skipped after any other kind;
\* whitespace without a newline gives no token; `a\nb` lexes as IDENTIFIER,
\* SEMICOLON, IDENTIFIER and `a +\nb` as IDENTIFIER, PLUS, IDENTIFIER.
C3_AutoSemicolon ==
    /\ \A k \in DOMAIN emitted :
          Synthetic(emitted[k]) =>
              /\ k > 1
              /\ emitted[k - 1].name \in
                    {"RIGHT_CURLY_BRACE", "RIGHT_PAREN", "IDENTIFIER", "INTEGER"}
              /\ emitted[k - 1].source_pos.end = emitted[k].source_pos.start
              /\ LF \in {emitted[k].value[j] : j \in DOMAIN emitted[k].value}
    /\ \A k \in DOMAIN emitted :
          LET e == emitted[k].source_pos.end
              w == ScanWhile(s, e, Space)
          IN (HasNewline(s, e, w) /\ (k < Len(emitted) \/ stream # "open")) =>
                 IF emitted[k].name \in
                       {"RIGHT_CURLY_BRACE", "RIGHT_PAREN", "IDENTIFIER", "INTEGER"}
                 THEN /\ k < Len(emitted)
                      /\ emitted[k + 1].name = "SEMICOLON"
                      /\ emitted[k + 1].value = Slice(s, e, w)
                      /\ emitted[k + 1].source_pos.start = e
                      /\ emitted[k + 1].source_pos.end = w
                 ELSE /\ \E j \in DOMAIN skipped :
                            skipped[j].start = e /\ skipped[j].end = w
                      /\ k < Len(emitted) => emitted[k + 1].source_pos.start = w
    /\ (s = <<97, 10, 98>> /\ stream = "stopped") =>
           [k \in DOMAIN emitted |-> emitted[k].name]
               = <<"IDENTIFIER", "SEMICOLON", "IDENTIFIER">>
    /\ (s = <<97, 32, 43, 10, 98>> /\ stream = "stopped") =>
           [k \in DOMAIN emitted |-> emitted[k].name]
               = <<"IDENTIFIER", "PLUS", "IDENTIFIER">>

\* an INTEGER, a newline and a further token: the SEMICOLON is between them
C3_Witness ==
    /\ stream = "stopped"
    /\ Len(emitted) = 3
    /\ emitted[1].name = "INTEGER"
    /\ Synthetic(emitted[2])
    /\ emitted[3].name = "PLUS"

\* C4: whitespace with a newline before any token is skipped: no SEMICOLON,
\* no error, the first token is the one after the whitespace, and a source of
\* whitespace only ends the stream normally with no token.
C4_LeadingNewlineSkipped ==
    LET w == ScanWhile(s, 0, Space)
    IN HasNewline(s, 0, w) =>
           /\ stream = "raised" => (exc.type = "lexer.ParseError" /\ idx >= w)
           /\ emitted # <<>> => (emitted[1].source_pos.start = w /\ ~Synthetic(emitted[1]))
           /\ (w = Len(s) /\ idx > 0) => (stream = "stopped" /\ emitted = <<>>)

\* C5: the text of the String node made of a STRING token is the decoded
\* content between the quotes, nothing lost: for a literal without a
\* backslash, the source between the two quotes.
C5_StringNodeText ==
    (result # Running /\ last_token # <<>> /\ last_token[1].name = "STRING") =>
        LET t == last_token[1]
            raw == Slice(s, t.source_pos.start + 1, t.source_pos.end - 1)
        IN /\ result.kind = "ast"
           /\ result.ast[1] = AstNode("String", <<t.value>>)
           /\ BSL \notin {raw[j] : j \in DOMAIN raw} => result.ast[1].args[1] = raw

\* whether the text from offset j to the end of str holds no closing quote:
\* ordinary characters, two-character escapes, or a backslash as the last
\* character
RECURSIVE Unclosed(_, _)
Unclosed(str, j) ==
    IF j >= Len(str) THEN TRUE
    ELSE IF At(str, j) = QUOTE THEN FALSE
    ELSE IF At(str, j) # BSL THEN Unclosed(str, j + 1)
    ELSE IF j + 1 >= Len(str) THEN TRUE
    ELSE At(str, j + 1) \notin {120, 117} /\ Unclosed(str, j + 2)

\* C6: when the input ends before the closing quote of a string literal, the
\* lexer raises the "unterminated string" LexError, with the number and the
\* text of the line of the opening quote.
C6_UnterminatedString ==
    (stream = "raised" /\ idx < Len(s) /\ At(s, idx) = QUOTE /\ Unclosed(s, idx + 1)) =>
        /\ exc.type = "lexer.ParseError"
        /\ exc.msg = "unterminated string"
        /\ exc.lineno = LineOf(s, idx)
        /\ exc.line = SplitLines(s)[LineOf(s, idx)]

\* C7: when a source is lexed to the end of the stream, the ranges of the
\* emitted tokens and the skipped whitespace ranges are in order, disjoint,
\* and cover every offset of the source exactly once; a synthetic SEMICOLON
\* spans its whitespace run, a STRING runs from its opening to its closing quote.
C7_RangesTile ==
    stream = "stopped" =>
        /\ idx = Len(s)
        /\ \A o \in 0..(Len(s) - 1) :
              Cardinality({k \in DOMAIN emitted :
                              /\ emitted[k].source_pos.start <= o
                              /\ o < emitted[k].source_pos.end})
                + Cardinality({k \in DOMAIN skipped :
                                  skipped[k].start <= o /\ o < skipped[k].end}) = 1
        /\ \A k \in DOMAIN emitted :
              /\ 0 <= emitted[k].source_pos.start
              /\ emitted[k].source_pos.start < emitted[k].source_pos.end
              /\ emitted[k].source_pos.end <= Len(s)
              /\ k > 1 => emitted[k - 1].source_pos.end <= emitted[k].source_pos.start
              /\ IF emitted[k].name = "STRING"
                 THEN /\ emitted[k].source_pos.end - emitted[k].source_pos.start >= 2
                      /\ At(s, emitted[k].source_pos.start) = QUOTE
                      /\ At(s, emitted[k].source_pos.end - 1) = QUOTE
                 ELSE emitted[k].value
                        = Slice(s, emitted[k].source_pos.start, emitted[k].source_pos.end)
        /\ \A k \in DOMAIN skipped :
              /\ 0 <= skipped[k].start
              /\ skipped[k].start < skipped[k].end
              /\ skipped[k].end <= Len(s)
              /\ k > 1 => skipped[k - 1].end <= skipped[k].start

\* a source with a STRING, skipped whitespace and a synthetic SEMICOLON,
\* lexed to its end
C7_Witness ==
    /\ stream = "stopped"
    /\ skipped # <<>>
    /\ \E k \in DOMAIN emitted : emitted[k].name = "STRING"
    /\ \E k \in DOMAIN emitted : Synthetic(emitted[k])

\* C8: a call with a `name = value` argument is rejected with a ParseError.
C8_NamedArgsRejected ==
    (s \in {NamedArgsSource, TestNamedArgsSource} /\ result # Running) =>
        /\ result.kind = "raised"
        /\ result.exc.type = "parser.ParseError"

\* C9: a ParseError's start column is the 1-based column of the rejected
\* token and its end column is the start plus the length of the token's
\* range; an "unrecognized token" LexError of the main lexer has the 1-based
\* column of the offset where no rule matched.
C9_Columns ==
    /\ (result.kind = "raised" /\ result.exc.type = "parser.ParseError") =>
           /\ result.exc.start_colno = ColumnOf(s, lookahead[1].source_pos.start)
           /\ result.exc.end_colno - result.exc.start_colno
                = lookahead[1].source_pos.end - lookahead[1].source_pos.start
    /\ (stream = "raised" /\ exc.msg = "unrecognized token"
            /\ idx < Len(s) /\ At(s, idx) # QUOTE) =>
           /\ exc.start_colno = ColumnOf(s, idx)
           /\ exc.end_colno = exc.start_colno + 1

\* whether str[j:end] is ordinary characters and backslash pairs that are no
\* recognized escape; withXU admits \x and \u that lack their hex digits
RECURSIVE PassThrough(_, _, _, _)
PassThrough(str, j, end, withXU) ==
    IF j >= end THEN TRUE
    ELSE IF At(str, j) = QUOTE THEN FALSE
    ELSE IF At(str, j) # BSL THEN PassThrough(str, j + 1, end, withXU)
    ELSE IF j + 1 >= end THEN FALSE
    ELSE IF At(str, j + 1) \in SimpleEscapes \cup {QUOTE, BSL} THEN FALSE
    ELSE IF At(str, j + 1) = 120
    THEN /\ withXU
         /\ ScanWhile(Slice(str, 0, end), j + 2, HexDigits) < j + 4
         /\ PassThrough(str, j + 2, end, withXU)
    ELSE IF At(str, j + 1) = 117
    THEN /\ withXU
         /\ ScanWhile(Slice(str, 0, end), j + 2, HexDigits) < j + 6
         /\ At(str, j + 2) # 123
         /\ PassThrough(str, j + 2, end, withXU)
    ELSE PassThrough(str, j + 2, end, withXU)

\* the source is one string literal of such content
PassThroughLiteral(withXU) ==
    /\ Len(s) >= 2
    /\ At(s, 0) = QUOTE
    /\ At(s, Len(s) - 1) = QUOTE
    /\ PassThrough(s, 1, Len(s) - 1, withXU)

\* the first call of next() has returned or raised
FirstTokenLexed == emitted # <<>> \/ stream = "raised"

\* C10: a backslash and a character that form no recognized escape pass
\* through as the two characters, with no error; the character is any but
\* a b f n r t v 0 x u, the quote and the backslash.  \x or \u without its
\* hex digits is no such pair: the literal is an "unrecognized token" LexError.
C10_UnrecognisedEscapes ==
    /\ (PassThroughLiteral(FALSE) /\ FirstTokenLexed) =>
           /\ emitted # <<>>
           /\ emitted[1].name = "STRING"
           /\ emitted[1].value = Slice(s, 1, Len(s) - 1)
           /\ emitted[1].source_pos.end = Len(s)
    /\ (PassThroughLiteral(TRUE) /\ ~PassThroughLiteral(FALSE) /\ FirstTokenLexed) =>
           /\ stream = "raised"
           /\ exc.type = "lexer.ParseError"
           /\ exc.msg = "unrecognized token"

\* C10 as it is stated: \x and \u without their hex digits pass through too
C10_AsStated ==
    (PassThroughLiteral(TRUE) /\ FirstTokenLexed) =>
        /\ emitted # <<>>
        /\ emitted[1].name = "STRING"
        /\ emitted[1].value = Slice(s, 1, Len(s) - 1)

\* the literal "\+" lexed: its value is the backslash and the +
C10_Witness ==
    /\ PassThroughLiteral(FALSE)
    /\ emitted # <<>>
    /\ emitted[1].value = <<BSL, 43>>

\* the number of newlines in str before offset o
NewlinesBefore(str, o) == Cardinality({k \in 0..(o - 1) : At(str, k) = LF})

\* the number of characters between the last newline before offset o, or the
\* start of str, and o
SinceNewline(str, o) ==
    Cardinality({k \in 0..(o - 1) : \A j \in k..(o - 1) : At(str, j) # LF})

\* C11: after any calls of next(), the stream's line counter is 1 plus the
\* number of newlines before the current offset, and every emitted token's
\* range has the 1-based line and the 1-based column of its start offset.
C11_LineAndColumn ==
    /\ lineno = 1 + NewlinesBefore(s, idx)
    /\ \A k \in DOMAIN emitted :
          /\ emitted[k].source_pos.lineno = 1 + NewlinesBefore(s, emitted[k].source_pos.start)
          /\ emitted[k].source_pos.colno = 1 + SinceNewline(s, emitted[k].source_pos.start)

\* a STRING that spans a newline, and a token in column 2 of line 2
C11_Witness ==
    /\ \E k \in DOMAIN emitted :
          /\ emitted[k].name = "STRING"
          /\ HasNewline(s, emitted[k].source_pos.start, emitted[k].source_pos.end)
    /\ \E k \in DOMAIN emitted :
          emitted[k].source_pos.lineno = 2 /\ emitted[k].source_pos.colno = 2
    /\ lineno = 2

====
